---- MODULE Spec2Model ----
(***************************************************************************)
(* piwheels master: TheOracle (database RPC worker) and DbClient (its RPC  *)
(* client), src/piwheels/master/the_oracle.py.  Several TheOracle          *)
(* instances sit behind a load-sharing router (Seraph); DbClient instances *)
(* talk to the router with a lock-step send/recv cycle.                    *)
(*                                                                         *)
(* Spec       workers, router and clients exchanging requests and replies  *)
(* FairSpec   Spec with every enabled step eventually taken                *)
(* SpecClose  Spec with TheOracle.close                                    *)
(* SpecCtor   TheOracle.__init__ and close, line by line, run concurrently *)
(* SpecCalls  the DbClient methods, one whole call per step                *)
(***************************************************************************)
EXTENDS Naturals, Sequences, FiniteSets, TLC

VARIABLES
    instance,    \* TheOracle.instance, the class-level counter
    wpc,         \* per worker: "new", "idle" (handler registered), "failed", "crashed",
                 \* "closed"; inside __init__: "loaded", "counted", "named"
    wname,       \* per worker: the instance number formatted into self.name
    dbOpen,      \* per worker: self.db is an open Database connection
    readySent,   \* per worker: number of b'READY' messages sent
    winbox,      \* per worker: envelopes the router delivered to db_queue
    last,        \* per worker: what the latest handle_db_request call did
    ready,       \* router: queue of workers that advertised readiness
    pending,     \* router: client requests not yet dispatched
    cpc,         \* per client: "idle" or "wait" (blocked in recv_msg)
    creq,        \* per client: the latest call: its id, whether the transport
                 \* accepted the send, whether its operation name is in the table
    cinbox,      \* per client: replies the router delivered
    cout,        \* per client: how the latest _execute call ended
    outstanding, \* per client: requests sent whose reply is not yet received
    ncalls,      \* per client: number of _execute calls started so far
    served,      \* per request id: the workers that received it
    storeCalls,  \* per request id: number of store functions invoked for it
    stats_type,  \* DbClient.stats_type, the class-level statistics record type
    firstStats,  \* the field names of the first OK reply get_statistics saw
    build,       \* per client: the build record the client hands to log_build
    call,        \* what the latest call of a DbClient method did
    closed,      \* per worker: the connections close() has released, in order
    ctmp,        \* per worker: TheOracle.instance as loaded by line 69
    order        \* the workers in the order their construction began

\* The variables of the DbClient methods above _execute, and of the steps
\* of TheOracle.__init__.
callVars == <<stats_type, firstStats, build, call>>
ctorVars == <<ctmp, order>>

vars == <<instance, wpc, wname, dbOpen, readySent, winbox, last, ready,
          pending, cpc, creq, cinbox, cout, outstanding, ncalls, served,
          storeCalls, callVars, closed, ctorVars>>

Workers == {1, 2}
Clients == {1, 2}

\* Bound on the total number of client calls in a behaviour.
MaxCalls == 2

\* A request is identified by its client and the number of the client's call.
Ids == Clients \X (1..MaxCalls)
NoId == <<0, 0>>

(***************************************************************************)
(* Values on the wire.  The data part of a request is Python's None or an  *)
(* ordered argument list.  Payloads are abstract values.                   *)
(***************************************************************************)
None == [none |-> TRUE, args |-> <<>>]
List(s) == [none |-> FALSE, args |-> s]

\* Routing address the router gives each client connection.
AddrOf(c) == IF c = 1 THEN "addr1" ELSE "addr2"
ClientOf(a) == CHOOSE c \in Clients : AddrOf(c) = a

(***************************************************************************)
(* The dispatch table of handle_db_request and the do_* handlers it names. *)
(* arity: positional parameters of the handler; fn: the Database method    *)
(* the handler calls; pass: which request arguments it hands to fn, in     *)
(* order; returns: whether the handler returns a value obtained from the   *)
(* store (otherwise it returns Python's None).                             *)
(***************************************************************************)
Handlers ==
    [ALLPKGS     |-> [arity |-> 0, fn |-> "get_all_packages",         pass |-> <<>>,           returns |-> TRUE],
     ALLVERS     |-> [arity |-> 0, fn |-> "get_all_package_versions", pass |-> <<>>,           returns |-> TRUE],
     NEWPKG      |-> [arity |-> 2, fn |-> "add_new_package",          pass |-> <<1>>,          returns |-> TRUE],
     NEWVER      |-> [arity |-> 4, fn |-> "add_new_package_version",  pass |-> <<1, 2, 3, 4>>, returns |-> TRUE],
     SKIPPKG     |-> [arity |-> 2, fn |-> "skip_package",             pass |-> <<1, 2>>,       returns |-> FALSE],
     SKIPVER     |-> [arity |-> 3, fn |-> "skip_package_version",     pass |-> <<1, 2, 3>>,    returns |-> FALSE],
     LOGDOWNLOAD |-> [arity |-> 1, fn |-> "log_download",             pass |-> <<1>>,          returns |-> FALSE],
     LOGBUILD    |-> [arity |-> 1, fn |-> "log_build",                pass |-> <<1>>,          returns |-> TRUE],
     DELBUILD    |-> [arity |-> 2, fn |-> "delete_build",             pass |-> <<1, 2>>,       returns |-> FALSE],
     PKGFILES    |-> [arity |-> 1, fn |-> "get_package_files",        pass |-> <<1>>,          returns |-> TRUE],
     PROJVERS    |-> [arity |-> 1, fn |-> "get_project_versions",     pass |-> <<1>>,          returns |-> TRUE],
     PROJFILES   |-> [arity |-> 1, fn |-> "get_project_files",        pass |-> <<1>>,          returns |-> TRUE],
     VERFILES    |-> [arity |-> 2, fn |-> "get_version_files",        pass |-> <<1, 2>>,       returns |-> TRUE],
     GETSKIP     |-> [arity |-> 2, fn |-> "get_version_skip",         pass |-> <<1, 2>>,       returns |-> TRUE],
     PKGEXISTS   |-> [arity |-> 2, fn |-> "test_package_version",     pass |-> <<1, 2>>,       returns |-> TRUE],
     GETABIS     |-> [arity |-> 0, fn |-> "get_build_abis",           pass |-> <<>>,           returns |-> TRUE],
     GETPYPI     |-> [arity |-> 0, fn |-> "get_pypi_serial",          pass |-> <<>>,           returns |-> TRUE],
     SETPYPI     |-> [arity |-> 1, fn |-> "set_pypi_serial",          pass |-> <<1>>,          returns |-> FALSE],
     GETSTATS    |-> [arity |-> 0, fn |-> "get_statistics",           pass |-> <<>>,           returns |-> TRUE],
     GETDL       |-> [arity |-> 0, fn |-> "get_downloads_recent",     pass |-> <<>>,           returns |-> TRUE],
     FILEDEPS    |-> [arity |-> 1, fn |-> "get_file_dependencies",    pass |-> <<1>>,          returns |-> TRUE]]

\* The operation names the worker recognises.
CatalogNames == DOMAIN Handlers

(***************************************************************************)
(* The DbClient methods: the message each sends and the length of its      *)
(* argument list; none marks a call of _execute(msg) that leaves data at   *)
(* its default, None.                                                      *)
(***************************************************************************)
ClientMethods ==
    [add_new_package          |-> [msg |-> "NEWPKG",      none |-> FALSE, nargs |-> 2],
     add_new_package_version  |-> [msg |-> "NEWVER",      none |-> FALSE, nargs |-> 4],
     skip_package             |-> [msg |-> "SKIPPKG",     none |-> FALSE, nargs |-> 2],
     skip_package_version     |-> [msg |-> "SKIPVER",     none |-> FALSE, nargs |-> 3],
     test_package_version     |-> [msg |-> "PKGEXISTS",   none |-> FALSE, nargs |-> 2],
     log_download             |-> [msg |-> "LOGDOWNLOAD", none |-> FALSE, nargs |-> 1],
     log_build                |-> [msg |-> "LOGBUILD",    none |-> FALSE, nargs |-> 1],
     get_build_abis           |-> [msg |-> "GETABIS",     none |-> TRUE,  nargs |-> 0],
     get_pypi_serial          |-> [msg |-> "GETPYPI",     none |-> TRUE,  nargs |-> 0],
     set_pypi_serial          |-> [msg |-> "SETPYPI",     none |-> FALSE, nargs |-> 1],
     get_all_packages         |-> [msg |-> "ALLPKGS",     none |-> TRUE,  nargs |-> 0],
     get_all_package_versions |-> [msg |-> "ALLVERS",     none |-> TRUE,  nargs |-> 0],
     get_statistics           |-> [msg |-> "GETSTATS",    none |-> TRUE,  nargs |-> 0],
     get_downloads_recent     |-> [msg |-> "GETDL",       none |-> TRUE,  nargs |-> 0],
     get_package_files        |-> [msg |-> "PKGFILES",    none |-> FALSE, nargs |-> 1],
     get_project_versions     |-> [msg |-> "PROJVERS",    none |-> FALSE, nargs |-> 1],
     get_project_files        |-> [msg |-> "PROJFILES",   none |-> FALSE, nargs |-> 1],
     get_version_files        |-> [msg |-> "VERFILES",    none |-> FALSE, nargs |-> 2],
     get_version_skip         |-> [msg |-> "GETSKIP",     none |-> FALSE, nargs |-> 2],
     get_file_dependencies    |-> [msg |-> "FILEDEPS",    none |-> FALSE, nargs |-> 1],
     delete_build             |-> [msg |-> "DELBUILD",    none |-> FALSE, nargs |-> 2]]

\* Argument values, distinct by position.
ArgValues == <<"a1", "a2", "a3", "a4">>
ArgList(n) == List(SubSeq(ArgValues, 1, n))

\* The (msg, data) pairs the DbClient methods hand to _execute.
MethodRequests ==
    {[msg  |-> ClientMethods[m].msg,
      data |-> IF ClientMethods[m].none THEN None ELSE ArgList(ClientMethods[m].nargs)]
        : m \in DOMAIN ClientMethods}

\* Requests _execute can be given that no DbClient method builds: names that
\* are not in the dispatch table (a foreign name, a prefix, an extension and a
\* case variant of a table name), an argument list that does not fit the handler,
\* and an explicit empty argument list.
DirectRequests ==
    {[msg |-> "NOSUCHOP", data |-> ArgList(0)],
     [msg |-> "NEWPK",    data |-> ArgList(2)],
     [msg |-> "NEWPKGS",  data |-> ArgList(2)],
     [msg |-> "newpkg",   data |-> ArgList(2)],
     [msg |-> "NEWPKG",   data |-> ArgList(1)],
     [msg |-> "GETSTATS", data |-> ArgList(0)]}

\* The DbClient methods the clients of this model call, one for each shape of
\* handler: a handler that returns the store's value, one that returns
\* nothing, one that returns the identifier the store generated, and one
\* without parameters (called with data = None).
CalledMethods == {"NEWPKG", "SKIPPKG", "LOGBUILD", "GETSTATS"}

Requests == {r \in MethodRequests : r.msg \in CalledMethods} \cup DirectRequests

(***************************************************************************)
(* The store collaborator (Database): a call returns a value or raises a   *)
(* failure with a description, which may be the empty text.                *)
(***************************************************************************)
StoreOutcomes ==
    {[raises |-> FALSE, value |-> "result"],
     [raises |-> FALSE, value |-> "unencodable"],
     [raises |-> TRUE,  value |-> ""],
     [raises |-> TRUE,  value |-> "duplicate build"]}

\* The store when no request reaches it.
NotCalled == [raises |-> FALSE, value |-> "None"]

\* Whether the transport can serialise a payload into a reply frame.
Encodable(v) == v # "unencodable"

\* Exceptions: a type and the text given to the constructor.
Exc(type, text) == [type |-> type, text |-> text]
NoExc == Exc("none", "")

\* Python's str(exc): the text of the exception; for KeyError, the repr of
\* the missing key.
StrExc(e) == IF e.type = "KeyError" THEN "'" \o e.text \o "'" ELSE e.text

\* Faulty variant of lookup: matches without regard to case and accepts a
\* prefix or an extension of a table name.
lookup_fuzzy(msg) ==
    IF msg \in DOMAIN Handlers
    THEN [found |-> TRUE, name |-> msg]
    ELSE IF msg \in {"newpkg", "NEWPK", "NEWPKGS"}
    THEN [found |-> TRUE, name |-> "NEWPKG"]
    ELSE [found |-> FALSE, name |-> msg]

\* The table lookup {...}[msg]: an exact match or KeyError(msg).
lookup(msg) ==
    IF msg \in DOMAIN Handlers
    THEN [found |-> TRUE, name |-> msg]
    ELSE [found |-> FALSE, name |-> msg]

\* handler(*data): binding the argument list to the handler's parameters.
Binds(h, data) == ~data.none /\ Len(data.args) = h.arity

\* The arguments the handler hands to the store function.
StoreArgs(h, data) == [i \in 1..Len(h.pass) |-> data.args[h.pass[i]]]

(***************************************************************************)
(* Lines 92-124: look the handler up, call it, and turn the outcome into   *)
(* the (msg, data) of the reply.  so is what the store does if called.     *)
(***************************************************************************)
dispatch(msg, data, so) ==
    LET l == lookup(msg) IN
    IF ~l.found
    THEN [exc |-> Exc("KeyError", msg), store |-> FALSE, result |-> "None"]
    ELSE LET h == Handlers[l.name] IN
         IF ~Binds(h, data)
         THEN [exc |-> Exc("TypeError", "arguments do not fit the handler"),
               store |-> FALSE, result |-> "None"]
         ELSE IF so.raises
         THEN [exc |-> Exc("StoreError", so.value), store |-> TRUE, result |-> "None"]
         ELSE [exc |-> NoExc, store |-> TRUE,
               result |-> IF h.returns THEN so.value ELSE "None"]

\* Lines 117-124: the reply for an outcome of the dispatch.
reply_for(d) ==
    IF d.exc.type # "none"
    THEN [msg |-> "ERROR", data |-> StrExc(d.exc)]
    ELSE [msg |-> "OK", data |-> d.result]

\* Faulty variant of reply_frames: replies to one fixed address.
reply_frames_fixed(address, msg, data) == <<"addr1", msg, data>>

\* Line 125: the frames of send_addr_msg(address, msg, data).
reply_frames(address, msg, data) == <<address, msg, data>>

(***************************************************************************)
(* Line 88: what recv_multipart hands to the three-way unpacking.  The     *)
(* read fails with IOError, or yields the frames of the envelope: the      *)
(* three the router sent, or a malformed message of two or of four parts.  *)
(***************************************************************************)
RecvOutcomes == {"ok", "ioerror", "short", "long"}

recv_multipart(rx, frames) ==
    CASE rx = "ok"    -> frames
      [] rx = "short" -> SubSeq(frames, 1, 2)
      [] rx = "long"  -> <<frames[1], "">> \o Tail(frames)
      [] OTHER        -> <<>>

\* Faulty variant of self_db: one Database connection shared by all workers.
self_db_shared(w) == 1

\* Line 72: each TheOracle creates its own Database connection and keeps it
\* in self.db; the do_* handlers call self.db only.  Connections are named
\* by the worker that created them.
self_db(w) == w

\* No connection.
NoConn == 0

\* What a call of handle_db_request did when nothing has been handled yet.
NoCall ==
    [recv |-> "none", logged |-> "none", raised |-> "none", store |-> FALSE,
     sent |-> <<>>, escaped |-> "none", address |-> "none", known |-> FALSE,
     conn |-> NoConn]

(***************************************************************************)
(* Lines 87-125, one call of handle_db_request.  recv: how the receive     *)
(* ended; logged: the logger call made; raised: the exception caught at    *)
(* line 117; store: whether a Database method was called; sent: the reply  *)
(* sent at line 125 (at most one); escaped: the exception that left the    *)
(* method; address: the routing address unpacked at line 88; known:        *)
(* whether the operation name unpacked at line 88 is a key of the table;   *)
(* conn: the store connection the handler called, which handle_db_request  *)
(* fills in for the worker that runs it.                                   *)
(***************************************************************************)
handle(rx, frames, so) ==
    IF rx = "ioerror"
    THEN [NoCall EXCEPT !.recv = "ioerror", !.logged = "exception"]
    ELSE LET parts == recv_multipart(rx, frames) IN
         IF Len(parts) # 3
         THEN [NoCall EXCEPT !.recv = "badframes", !.escaped = "ValueError"]
         ELSE LET address == parts[1]
                  d == dispatch(parts[2], parts[3], so)
                  r == reply_for(d)
              IN  [recv    |-> "ok",
                   logged  |-> IF d.exc.type # "none" THEN "error" ELSE "none",
                   raised  |-> d.exc.type,
                   store   |-> d.store,
                   sent    |-> IF Encodable(r.data)
                               THEN <<reply_frames(address, r.msg, r.data)>>
                               ELSE <<>>,
                   escaped |-> IF Encodable(r.data) THEN "none" ELSE "SendError",
                   address |-> address,
                   known   |-> parts[2] \in CatalogNames,
                   conn    |-> NoConn]

\* Faulty variant of init_connect: b'READY' is sent before the store
\* connection is opened.
init_connect_ready_first(dbok) ==
    IF dbok
    THEN [pc |-> "idle", db |-> TRUE, ready |-> 1]
    ELSE [pc |-> "failed", db |-> FALSE, ready |-> 1]

\* Lines 72-77: the store connection is opened first; only then is the queue
\* connected, the handler registered and b'READY' sent.  A failure to open
\* the store connection leaves __init__ by an exception.
init_connect(dbok) ==
    IF dbok
    THEN [pc |-> "idle", db |-> TRUE, ready |-> 1]
    ELSE [pc |-> "failed", db |-> FALSE, ready |-> 0]

\* Faulty variant of execute_send: the failure of the send is swallowed and
\* the call goes on to wait for a reply.
execute_send_swallow(accepted) == "wait"

\* Lines 297-298: send_msg with zmq.NOBLOCK either hands the request to the
\* transport, and _execute goes on to block in recv_msg, or raises, and the
\* exception leaves _execute.
execute_send(accepted) == IF accepted THEN "wait" ELSE "raise"

\* Faulty variant of execute_result: the payload is returned whatever the
\* status.
execute_result_always_return(status, result) ==
    [kind |-> "return", type |-> "none", value |-> result]

\* Lines 298-302: the end of _execute for a reply (status, result).
execute_result(status, result) ==
    IF status = "OK"
    THEN [kind |-> "return", type |-> "none", value |-> result]
    ELSE [kind |-> "raise", type |-> "IOError", value |-> result]

\* Faulty variant of CanCall: a call may start while the previous one is
\* still waiting for its reply.
CanCall_any(c) == cpc[c] \in {"idle", "wait"}

\* _execute is synchronous: a DbClient starts a call only when its previous
\* call has returned or raised.
CanCall(c) == cpc[c] = "idle"

\* The number of calls all clients have started.
RECURSIVE Sum(_, _)
Sum(f, S) == IF S = {} THEN 0 ELSE LET x == CHOOSE y \in S : TRUE IN f[x] + Sum(f, S \ {x})
TotalCalls == Sum(ncalls, Clients)

NoRequest == [id |-> NoId, accepted |-> FALSE, known |-> FALSE]
NoOutcome ==
    [id |-> NoId, kind |-> "none", type |-> "none", value |-> "",
     status |-> "none", payload |-> "", rid |-> NoId]

(***************************************************************************)
(* The router between clients and workers, as far as a worker's sends      *)
(* reach it: a message from a worker, its READY or a reply, marks the      *)
(* worker ready, and a reply is passed on to the client connection its     *)
(* first frame addresses.  A message sent on db_queue reaches the router   *)
(* at once.                                                                *)
(***************************************************************************)
router_ready(q, w, n) == IF n > 0 THEN Append(q, w) ELSE q

router_reply(inboxes, sent, id) ==
    IF sent = <<>>
    THEN inboxes
    ELSE [inboxes EXCEPT ![ClientOf(sent[1][1])] =
            Append(@, [frames |-> Tail(sent[1]), id |-> id])]

(***************************************************************************)
(* The DbClient methods above _execute, lines 304-433.                     *)
(***************************************************************************)
\* The request a DbClient method hands to _execute.
RequestOf(m) ==
    [msg  |-> ClientMethods[m].msg,
     data |-> IF ClientMethods[m].none THEN None ELSE ArgList(ClientMethods[m].nargs)]

\* The methods that call _execute without returning what it returned.
Discarding ==
    {"skip_package", "skip_package_version", "log_download", "set_pypi_serial",
     "delete_build"}

\* Statistics the store can report, as abstract values, and the (field,
\* value) pairs of each, in the order of the reply: stats2 has the fields of
\* stats1 with other values, stats3 those of stats1 in another order, stats4
\* one field more.
StatsValues == {"stats1", "stats2", "stats3", "stats4"}

Pairs(v) ==
    CASE v = "stats1" -> <<<<"downloads_last_month", 100>>, <<"packages_count", 500>>>>
      [] v = "stats2" -> <<<<"downloads_last_month", 120>>, <<"packages_count", 510>>>>
      [] v = "stats3" -> <<<<"packages_count", 500>>, <<"downloads_last_month", 100>>>>
      [] v = "stats4" -> <<<<"downloads_last_month", 100>>, <<"packages_count", 500>>,
                           <<"builds_count", 7>>>>
      [] OTHER        -> <<>>

\* What the Database method fn does when called: get_statistics reports
\* statistics, the other methods an opaque value; each can raise.
StoreOutcomesOf(fn) ==
    IF fn = "get_statistics"
    THEN {[raises |-> FALSE, value |-> v] : v \in StatsValues}
         \cup {[raises |-> TRUE, value |-> "duplicate build"]}
    ELSE StoreOutcomes

\* DbClient.stats_type: None, or the namedtuple type with its field names.
NoType == [set |-> FALSE, fields |-> <<>>]
namedtuple(fields) == [set |-> TRUE, fields |-> fields]

Keys(rec) == [i \in 1..Len(rec) |-> rec[i][1]]
KeySet(rec) == {rec[i][1] : i \in 1..Len(rec)}
PairSet(rec) == {rec[i] : i \in 1..Len(rec)}
FieldSet(t) == {t.fields[i] : i \in 1..Len(t.fields)}
ValueOf(rec, k) == rec[CHOOSE i \in 1..Len(rec) : rec[i][1] = k][2]

\* Faulty variant of pin: the type is rebuilt from every reply.
pin_rebuild(st, rec) == namedtuple(Keys(rec))

\* Lines 382-384: the type is created from the field names of rec only when
\* none has been created yet.
pin(st, rec) == IF st.set THEN st ELSE namedtuple(Keys(rec))

\* Faulty variant of construct: fields the reply lacks are left empty and
\* fields the type lacks are ignored.
construct_lenient(t, rec) ==
    [kind |-> "return", type |-> "none",
     record |-> [i \in 1..Len(t.fields) |->
                   <<t.fields[i],
                     IF t.fields[i] \in KeySet(rec) THEN ValueOf(rec, t.fields[i]) ELSE 0>>]]

\* Line 385, stats_type(**{k: v for k, v in rec}): the namedtuple constructor
\* takes exactly its fields as keyword arguments, and raises TypeError for a
\* missing or an unexpected one; the record has the fields in the order of
\* the type.
construct(t, rec) ==
    IF KeySet(rec) = FieldSet(t)
    THEN [kind |-> "return", type |-> "none",
          record |-> [i \in 1..Len(t.fields) |->
                        <<t.fields[i], ValueOf(rec, t.fields[i])>>]]
    ELSE [kind |-> "raise", type |-> "TypeError", record |-> <<>>]

\* The build record before log_build has marked it.
NoBuild == [logged |-> FALSE, build_id |-> ""]

\* Faulty variant of log_build_post: the build is marked whatever the outcome
\* of _execute.
log_build_post_always(e, b) == [logged |-> TRUE, build_id |-> e.value]

\* Lines 344-345: build.logged(build_id) runs only when _execute returned.
log_build_post(e, b) ==
    IF e.kind = "return" THEN [logged |-> TRUE, build_id |-> e.value] ELSE b

(***************************************************************************)
(* What method m does with the outcome e of its _execute call, given the   *)
(* class attribute stats_type (st) and the build record (b): how the       *)
(* method ends and what it leaves in st and b.                             *)
(***************************************************************************)
method_post(m, e, st, b) ==
    LET through == [kind |-> e.kind, type |-> e.type, value |-> e.value,
                    record |-> <<>>, stats_type |-> st, build |-> b]
    IN  CASE m = "log_build" ->
               [through EXCEPT !.build = log_build_post(e, b),
                               !.value = IF e.kind = "return" THEN "None" ELSE @]
          [] m = "get_statistics" /\ e.kind = "return" ->
               LET rec == Pairs(e.value)
                   t == pin(st, rec)
                   r == construct(t, rec)
               IN  [kind |-> r.kind, type |-> r.type, value |-> "",
                    record |-> r.record, stats_type |-> t, build |-> b]
          [] m \in Discarding /\ e.kind = "return" ->
               [through EXCEPT !.value = "None"]
          [] OTHER -> through

\* The field names of the first OK reply a get_statistics call has seen.
first_seen(fs, m, status, payload) ==
    IF m = "get_statistics" /\ status = "OK" /\ ~fs.set
    THEN namedtuple(Keys(Pairs(payload)))
    ELSE fs

\* How _execute ends when the send raises, and when no reply ever comes.
RaisedAgain == [kind |-> "raise", type |-> "Again", value |-> ""]
Blocked == [kind |-> "blocked", type |-> "none", value |-> ""]

NoMethodCall ==
    [client |-> 0, method |-> "none", e2e |-> FALSE, args |-> <<>>,
     accepted |-> FALSE, so |-> NotCalled, store |-> FALSE, storeFn |-> "none",
     storeArgs |-> <<>>, status |-> "none", payload |-> "", kind |-> "none",
     type |-> "none", value |-> "", record |-> <<>>]

Init ==
    /\ instance = 0
    /\ wpc = [w \in Workers |-> "new"]
    /\ wname = [w \in Workers |-> 0]
    /\ dbOpen = [w \in Workers |-> FALSE]
    /\ readySent = [w \in Workers |-> 0]
    /\ winbox = [w \in Workers |-> <<>>]
    /\ last = [w \in Workers |-> NoCall]
    /\ ready = <<>>
    /\ pending = <<>>
    /\ cpc = [c \in Clients |-> "idle"]
    /\ creq = [c \in Clients |-> NoRequest]
    /\ cinbox = [c \in Clients |-> <<>>]
    /\ cout = [c \in Clients |-> NoOutcome]
    /\ outstanding = [c \in Clients |-> 0]
    /\ ncalls = [c \in Clients |-> 0]
    /\ served = [i \in Ids |-> {}]
    /\ storeCalls = [i \in Ids |-> 0]
    /\ stats_type = NoType
    /\ firstStats = NoType
    /\ build = [c \in Clients |-> NoBuild]
    /\ call = NoMethodCall
    /\ closed = [w \in Workers |-> <<>>]
    /\ ctmp = [w \in Workers |-> 0]
    /\ order = <<>>

(***************************************************************************)
(* TheOracle.__init__, lines 68-77.                                        *)
(***************************************************************************)
TheOracle_init(w) ==
    /\ wpc[w] = "new"
    /\ \E dbok \in BOOLEAN :
         LET r == init_connect(dbok) IN
         /\ instance' = instance + 1
         /\ wname' = [wname EXCEPT ![w] = instance + 1]
         /\ wpc' = [wpc EXCEPT ![w] = r.pc]
         /\ dbOpen' = [dbOpen EXCEPT ![w] = r.db]
         /\ readySent' = [readySent EXCEPT ![w] = @ + r.ready]
         /\ ready' = router_ready(ready, w, r.ready)
    /\ order' = Append(order, w)
    /\ UNCHANGED <<winbox, last, pending, cpc, creq, cinbox, cout,
                   outstanding, ncalls, served, storeCalls, callVars, closed,
                   ctmp>>

(***************************************************************************)
(* TheOracle.handle_db_request, lines 83-125, called when db_queue is      *)
(* readable.  An exception that leaves the method is not caught in this    *)
(* class: it reaches the caller in the task's loop, and the worker handles *)
(* nothing more ("crashed").                                               *)
(***************************************************************************)
handle_db_request(w) ==
    /\ wpc[w] = "idle"
    /\ winbox[w] # <<>>
    /\ \E rx \in RecvOutcomes :
       \E so \in IF rx = "ok" THEN StoreOutcomes ELSE {NotCalled} :
       \E h0 \in {handle(rx, Head(winbox[w]).frames, so)} :
         LET env == Head(winbox[w])
             h == [h0 EXCEPT !.conn = IF h0.store THEN self_db(w) ELSE NoConn]
         IN  /\ winbox' = [winbox EXCEPT ![w] = Tail(@)]
             /\ last' = [last EXCEPT ![w] = h]
             /\ ready' = router_ready(ready, w, Len(h.sent))
             /\ cinbox' = router_reply(cinbox, h.sent, env.id)
             /\ wpc' = [wpc EXCEPT ![w] =
                           IF h.escaped = "none" THEN "idle" ELSE "crashed"]
             /\ served' = IF h.recv = "ok"
                          THEN [served EXCEPT ![env.id] = @ \cup {w}]
                          ELSE served
             /\ storeCalls' = IF h.store
                              THEN [storeCalls EXCEPT ![env.id] = @ + 1]
                              ELSE storeCalls
    /\ UNCHANGED <<instance, wname, dbOpen, readySent, pending, cpc, creq,
                   cout, outstanding, ncalls, callVars, closed, ctorVars>>

\* The oldest pending request goes to the worker that has been ready longest,
\* with the address of the client connection in front.
RouterFrontend ==
    /\ pending # <<>>
    /\ ready # <<>>
    /\ LET m == Head(pending)
           w == Head(ready)
       IN  /\ winbox' = [winbox EXCEPT ![w] =
                           Append(@, [frames |-> <<AddrOf(m.from)>> \o m.frames,
                                      id |-> m.id])]
           /\ pending' = Tail(pending)
           /\ ready' = Tail(ready)
    /\ UNCHANGED <<instance, wpc, wname, dbOpen, readySent, last, cpc, creq,
                   cinbox, cout, outstanding, ncalls, served, storeCalls,
                   callVars, closed, ctorVars>>

(***************************************************************************)
(* DbClient._execute, lines 294-302, up to the point where it blocks in    *)
(* recv_msg or the send raises.                                            *)
(***************************************************************************)
DbClient_execute(c) ==
    /\ CanCall(c)
    /\ TotalCalls < MaxCalls
    /\ \E r \in Requests, accepted \in BOOLEAN :
         LET id == <<c, ncalls[c] + 1>>
             sent == execute_send(accepted) = "wait"
         IN  /\ ncalls' = [ncalls EXCEPT ![c] = @ + 1]
             /\ creq' = [creq EXCEPT ![c] =
                           [id |-> id, accepted |-> accepted,
                            known |-> r.msg \in CatalogNames]]
             /\ cpc' = [cpc EXCEPT ![c] = IF sent THEN "wait" ELSE "idle"]
             /\ cout' = [cout EXCEPT ![c] =
                           IF sent THEN @
                           ELSE [NoOutcome EXCEPT !.id = id, !.kind = "raise",
                                                  !.type = "Again"]]
             /\ pending' = IF accepted
                           THEN Append(pending, [from |-> c,
                                                 frames |-> <<r.msg, r.data>>,
                                                 id |-> id])
                           ELSE pending
             /\ outstanding' = [outstanding EXCEPT ![c] =
                                  IF accepted THEN @ + 1 ELSE @]
    /\ UNCHANGED <<instance, wpc, wname, dbOpen, readySent, winbox, last,
                   ready, cinbox, served, storeCalls, callVars, closed,
                   ctorVars>>

\* DbClient._execute, lines 298-302: recv_msg returns the reply.
DbClient_recv(c) ==
    /\ cpc[c] = "wait"
    /\ cinbox[c] # <<>>
    /\ LET m == Head(cinbox[c])
           r == execute_result(m.frames[1], m.frames[2])
       IN  /\ cinbox' = [cinbox EXCEPT ![c] = Tail(@)]
           /\ cout' = [cout EXCEPT ![c] =
                         [id |-> creq[c].id, kind |-> r.kind, type |-> r.type,
                          value |-> r.value, status |-> m.frames[1],
                          payload |-> m.frames[2], rid |-> m.id]]
           /\ cpc' = [cpc EXCEPT ![c] = "idle"]
           /\ outstanding' = [outstanding EXCEPT ![c] = @ - 1]
    /\ UNCHANGED <<instance, wpc, wname, dbOpen, readySent, winbox, last,
                   ready, pending, creq, ncalls, served, storeCalls, callVars,
                   closed, ctorVars>>

Next ==
    \/ \E w \in Workers : TheOracle_init(w)
    \/ \E w \in Workers : handle_db_request(w)
    \/ RouterFrontend
    \/ \E c \in Clients : DbClient_execute(c)
    \/ \E c \in Clients : DbClient_recv(c)

Spec == Init /\ [][Next]_vars

(***************************************************************************)
(* Calls of the DbClient methods, one call per step.  DbClient_call is a   *)
(* call of any of the methods with a TheOracle of this module at the other *)
(* end: the request the method builds is accepted by the transport or not, *)
(* the worker it is dispatched to handles it with handle_db_request, and   *)
(* the method ends with the reply.  A call whose reply never comes leaves  *)
(* the client blocked in recv_msg.                                         *)
(***************************************************************************)
DbClient_call(c) ==
    /\ CanCall(c)
    /\ \E m \in DOMAIN ClientMethods, accepted \in BOOLEAN :
       \E so \in IF accepted
                 THEN StoreOutcomesOf(Handlers[ClientMethods[m].msg].fn)
                 ELSE {NotCalled} :
       \E h \in {IF execute_send(accepted) = "wait"
                 THEN handle("ok", <<AddrOf(c), RequestOf(m).msg, RequestOf(m).data>>, so)
                 ELSE NoCall} :
       \E p \in {method_post(m,
                     IF execute_send(accepted) # "wait" THEN RaisedAgain
                     ELSE IF h.sent # <<>> THEN execute_result(h.sent[1][2], h.sent[1][3])
                     ELSE Blocked,
                     stats_type, build[c])} :
         LET req == RequestOf(m)
             replied == h.sent # <<>>
             status == IF replied THEN h.sent[1][2] ELSE "none"
             payload == IF replied THEN h.sent[1][3] ELSE ""
         IN  /\ call' = [client |-> c, method |-> m, e2e |-> TRUE,
                         args |-> req.data.args, accepted |-> accepted,
                         so |-> so, store |-> h.store,
                         storeFn |-> IF h.store THEN Handlers[req.msg].fn ELSE "none",
                         storeArgs |-> IF h.store
                                       THEN StoreArgs(Handlers[req.msg], req.data)
                                       ELSE <<>>,
                         status |-> status, payload |-> payload,
                         kind |-> p.kind, type |-> p.type, value |-> p.value,
                         record |-> p.record]
             /\ stats_type' = p.stats_type
             /\ firstStats' = first_seen(firstStats, m, status, payload)
             /\ build' = [build EXCEPT ![c] = p.build]
             /\ cpc' = [cpc EXCEPT ![c] = IF p.kind = "blocked" THEN "wait" ELSE "idle"]
    /\ UNCHANGED <<instance, wpc, wname, dbOpen, readySent, winbox, last,
                   ready, pending, creq, cinbox, cout, outstanding, ncalls,
                   served, storeCalls, closed, ctorVars>>

\* The replies _execute('GETSTATS') can receive from a worker: OK with
\* statistics, or ERROR with a description.
StatsReplies ==
    {[status |-> "OK", payload |-> v] : v \in StatsValues}
    \cup {[status |-> "ERROR", payload |-> "duplicate build"]}

NoReply == [status |-> "none", payload |-> ""]

(***************************************************************************)
(* DbClient.get_statistics, lines 377-385, for every way its _execute call *)
(* can end: the send raises, or a reply with status and payload arrives.   *)
(***************************************************************************)
DbClient_get_statistics(c) ==
    /\ CanCall(c)
    /\ \E accepted \in BOOLEAN :
       \E r \in IF accepted THEN StatsReplies ELSE {NoReply} :
       \E p \in {method_post("get_statistics",
                     IF execute_send(accepted) = "wait"
                     THEN execute_result(r.status, r.payload)
                     ELSE RaisedAgain,
                     stats_type, build[c])} :
             /\ call' = [NoMethodCall EXCEPT
                            !.client = c, !.method = "get_statistics",
                            !.accepted = accepted, !.status = r.status,
                            !.payload = r.payload, !.kind = p.kind,
                            !.type = p.type, !.value = p.value,
                            !.record = p.record]
             /\ stats_type' = p.stats_type
             /\ firstStats' = first_seen(firstStats, "get_statistics", r.status, r.payload)
    /\ UNCHANGED <<instance, wpc, wname, dbOpen, readySent, winbox, last,
                   ready, pending, cpc, creq, cinbox, cout, outstanding,
                   ncalls, served, storeCalls, build, closed, ctorVars>>

NextCalls ==
    \/ \E c \in Clients : DbClient_call(c)
    \/ \E c \in Clients : DbClient_get_statistics(c)

SpecCalls == Init /\ [][NextCalls]_vars

(***************************************************************************)
(* TheOracle.__init__ step by step, for constructions that run             *)
(* concurrently: line 69 reads the class attribute and writes it back one  *)
(* higher, line 70 reads it again to form the name, lines 71-77 do the     *)
(* rest.  Another construction can run between any two of the steps.       *)
(***************************************************************************)
init_load(w) ==
    /\ wpc[w] = "new"
    /\ ctmp' = [ctmp EXCEPT ![w] = instance]
    /\ order' = Append(order, w)
    /\ wpc' = [wpc EXCEPT ![w] = "loaded"]
    /\ UNCHANGED <<instance, wname, dbOpen, readySent, winbox, last, ready,
                   pending, cpc, creq, cinbox, cout, outstanding, ncalls,
                   served, storeCalls, callVars, closed>>

init_store(w) ==
    /\ wpc[w] = "loaded"
    /\ instance' = ctmp[w] + 1
    /\ wpc' = [wpc EXCEPT ![w] = "counted"]
    /\ UNCHANGED <<wname, dbOpen, readySent, winbox, last, ready, pending,
                   cpc, creq, cinbox, cout, outstanding, ncalls, served,
                   storeCalls, callVars, closed, ctorVars>>

init_name(w) ==
    /\ wpc[w] = "counted"
    /\ wname' = [wname EXCEPT ![w] = instance]
    /\ wpc' = [wpc EXCEPT ![w] = "named"]
    /\ UNCHANGED <<instance, dbOpen, readySent, winbox, last, ready, pending,
                   cpc, creq, cinbox, cout, outstanding, ncalls, served,
                   storeCalls, callVars, closed, ctorVars>>

init_finish(w) ==
    /\ wpc[w] = "named"
    /\ \E dbok \in BOOLEAN :
         LET r == init_connect(dbok) IN
         /\ wpc' = [wpc EXCEPT ![w] = r.pc]
         /\ dbOpen' = [dbOpen EXCEPT ![w] = r.db]
         /\ readySent' = [readySent EXCEPT ![w] = @ + r.ready]
         /\ ready' = router_ready(ready, w, r.ready)
    /\ UNCHANGED <<instance, wname, winbox, last, pending, cpc, creq, cinbox,
                   cout, outstanding, ncalls, served, storeCalls, callVars,
                   closed, ctorVars>>

\* The router forgets a worker whose connection is gone.
router_disconnect(q, w) == SelectSeq(q, LAMBDA x : x # w)

\* Lines 80-81: self.db.close(), then super().close(), which closes the
\* queue connection.
close_steps == <<"db", "queue">>

(***************************************************************************)
(* TheOracle.close, lines 79-81, called when the worker's loop has ended:  *)
(* after a request to stop, or after an exception has left a handler.      *)
(***************************************************************************)
TheOracle_close(w) ==
    /\ wpc[w] \in {"idle", "crashed"}
    /\ closed' = [closed EXCEPT ![w] = close_steps]
    /\ dbOpen' = [dbOpen EXCEPT ![w] = FALSE]
    /\ wpc' = [wpc EXCEPT ![w] = "closed"]
    /\ ready' = router_disconnect(ready, w)
    /\ UNCHANGED <<instance, wname, readySent, winbox, last, pending, cpc,
                   creq, cinbox, cout, outstanding, ncalls, served,
                   storeCalls, callVars, ctorVars>>

NextCtor ==
    \/ \E w \in Workers : init_load(w)
    \/ \E w \in Workers : init_store(w)
    \/ \E w \in Workers : init_name(w)
    \/ \E w \in Workers : init_finish(w)
    \/ \E w \in Workers : TheOracle_close(w)

SpecCtor == Init /\ [][NextCtor]_vars

NextClose ==
    \/ Next
    \/ \E w \in Workers : TheOracle_close(w)

SpecClose == Init /\ [][NextClose]_vars

\* The workers handle what is delivered to them, the router dispatches, the
\* clients take their replies and make the calls they have to make, and
\* constructions complete.
FairSpec ==
    /\ Spec
    /\ \A w \in Workers : WF_vars(TheOracle_init(w)) /\ WF_vars(handle_db_request(w))
    /\ WF_vars(RouterFrontend)
    /\ \A c \in Clients : WF_vars(DbClient_execute(c)) /\ WF_vars(DbClient_recv(c))

(***************************************************************************)
(* Properties.                                                             *)
(***************************************************************************)
RecvFailures == {"ioerror", "badframes"}

\* All the envelopes of request id that are on their way to a worker.
InFlight(id) ==
    {i \in 1..Len(pending) : pending[i].id = id}
    \cup UNION {{w} \X {i \in 1..Len(winbox[w]) : winbox[w][i].id = id} : w \in Workers}

\* C1: every request a worker's handle_db_request receives (address,
\* operation and arguments obtained) gets exactly one reply from that call,
\* carrying the same routing address, whatever happens while it is handled.
C1_OneReplyPerRequest ==
    \A w \in Workers :
        last[w].recv = "ok" =>
            /\ Len(last[w].sent) = 1
            /\ last[w].sent[1][1] = last[w].address

\* C2: whenever the store raises during a recognised operation, whatever the
\* description of the failure, the reply has status ERROR and its payload is
\* a non-empty string.
C2_StoreErrorNonEmptyPayload ==
    \A w \in Workers :
        last[w].raised = "StoreError" =>
            /\ Len(last[w].sent) = 1
            /\ last[w].sent[1][2] = "ERROR"
            /\ last[w].sent[1][3] # ""

\* C3: a client call whose reply has status OK returns the reply's payload;
\* one whose reply has status ERROR raises a failure whose message is the
\* reply's payload; a call never does both, and never returns the payload of
\* an ERROR reply.
C3_ClientOutcome ==
    \A c \in Clients :
        /\ cout[c].status = "OK" =>
              /\ cout[c].kind = "return"
              /\ cout[c].value = cout[c].payload
        /\ cout[c].status = "ERROR" =>
              /\ cout[c].kind = "raise"
              /\ cout[c].type = "IOError"
              /\ cout[c].value = cout[c].payload
        /\ cout[c].kind = "return" => cout[c].status = "OK"

C3_Witness ==
    \E c, d \in Clients :
        /\ cout[c].status = "ERROR" /\ cout[c].kind = "raise"
        /\ cout[c].value = "duplicate build"
        /\ cout[d].status = "OK" /\ cout[d].kind = "return"
        /\ cout[d].value = "result"

\* C4: for an operation name that is not exactly one of the names of the
\* table, the worker calls no store function, sends an ERROR reply and stays
\* in its loop, and the client's call raises; a store function is called
\* only for a name of the table.
C4_UnknownOperation ==
    /\ \A w \in Workers :
          /\ (last[w].recv = "ok" /\ ~last[w].known) =>
                /\ ~last[w].store
                /\ Len(last[w].sent) = 1
                /\ last[w].sent[1][2] = "ERROR"
                /\ last[w].escaped = "none"
                /\ wpc[w] = "idle"
          /\ last[w].store => last[w].known
    /\ \A c \in Clients :
          (cout[c].status # "none" /\ cout[c].id = creq[c].id /\ ~creq[c].known) =>
                cout[c].kind = "raise"

C4_Witness ==
    \E w \in Workers, c \in Clients :
        /\ last[w].recv = "ok" /\ ~last[w].known
        /\ last[w].sent = <<reply_frames(AddrOf(c), "ERROR", "'newpkg'")>>
        /\ cout[c].id = creq[c].id /\ ~creq[c].known
        /\ cout[c].kind = "raise" /\ cout[c].value = "'newpkg'"

\* C5: only a failure of the receive ends a worker's loop: no exception
\* leaves handle_db_request once a request has been received, and the worker
\* is then back in its loop.
C5_OnlyReceiveFailureEndsLoop ==
    \A w \in Workers :
        /\ last[w].escaped # "none" => last[w].recv \in RecvFailures
        /\ wpc[w] = "crashed" => last[w].recv \in RecvFailures

\* C6: when receiving the envelope fails, by an I/O error or by a message
\* that does not have three parts, the failure is logged, no reply is sent,
\* no store function is called and the worker stays in its loop.
C6_ReceiveFailure ==
    \A w \in Workers :
        last[w].recv \in RecvFailures =>
            /\ last[w].logged # "none"
            /\ last[w].sent = <<>>
            /\ ~last[w].store
            /\ last[w].escaped = "none"
            /\ wpc[w] = "idle"

\* C7: when the transport does not accept the client's send at once, the
\* call has failed with the transport's would-block error: the client is not
\* waiting for a reply, and no request of that call is on its way to, or has
\* reached, a worker.
C7_Backpressure ==
    \A c \in Clients :
        (creq[c].id # NoId /\ ~creq[c].accepted) =>
            /\ cpc[c] = "idle"
            /\ cout[c].id = creq[c].id
            /\ cout[c].kind = "raise"
            /\ cout[c].type = "Again"
            /\ InFlight(creq[c].id) = {}
            /\ served[creq[c].id] = {}
            /\ storeCalls[creq[c].id] = 0

C7_Witness ==
    \E c \in Clients :
        /\ creq[c].id # NoId /\ ~creq[c].accepted
        /\ cout[c].type = "Again"
        /\ ready # <<>>

\* The requests of client c on their way to a worker and the replies on
\* their way back to it.
OnTheWire(c) ==
    Cardinality({i \in 1..Len(pending) : pending[i].from = c})
    + Sum([w \in Workers |->
             Cardinality({i \in 1..Len(winbox[w]) :
                             winbox[w][i].frames[1] = AddrOf(c)})], Workers)
    + Len(cinbox[c])

\* C8: a client has at most one request whose reply it has not received, and
\* none when no call is in progress: a request is sent only after the reply
\* to the previous one has been received.
C8_OneOutstanding ==
    \A c \in Clients :
        /\ outstanding[c] <= 1
        /\ OnTheWire(c) <= outstanding[c]
        /\ cpc[c] = "idle" => outstanding[c] = 0

C8_Witness ==
    \E c \in Clients :
        /\ ncalls[c] = 2
        /\ outstanding[c] = 1
        /\ cout[c].status = "ERROR"
        /\ cout[c].id = <<c, 1>>

\* C9: each request is received by at most one worker and its store function
\* is called at most once; a client that has its reply has the reply to its
\* own request, which exactly one worker received.
C9_NoDuplicateProcessing ==
    /\ \A id \in Ids :
          /\ Cardinality(served[id]) <= 1
          /\ storeCalls[id] <= 1
          /\ storeCalls[id] = 1 => served[id] # {}
    /\ \A c \in Clients :
          cout[c].status # "none" =>
              /\ cout[c].rid = cout[c].id
              /\ Cardinality(served[cout[c].id]) = 1
              /\ cout[c].status = "OK" =>
                    storeCalls[cout[c].id] = 1

C9_Witness ==
    /\ cout[1].status = "OK" /\ cout[2].status = "OK"
    /\ served[<<1, 1>>] = {2} /\ served[<<2, 1>>] = {1}
    /\ storeCalls[<<1, 1>>] = 1 /\ storeCalls[<<2, 1>>] = 1

\* C10: a worker sends its ready advertisement at most once, only with its
\* store connection open, and before it handles anything; a worker whose
\* store connection could not be opened has sent none and handles nothing.
C10_ReadyOnceAfterStore ==
    \A w \in Workers :
        /\ readySent[w] <= 1
        /\ readySent[w] = 1 => dbOpen[w]
        /\ wpc[w] \in {"idle", "crashed"} => readySent[w] = 1
        /\ last[w].recv # "none" => readySent[w] = 1
        /\ wpc[w] = "failed" =>
              /\ readySent[w] = 0
              /\ last[w].recv = "none"
              /\ \A i \in 1..Len(ready) : ready[i] # w

C10_Witness ==
    \E v, w \in Workers :
        /\ wpc[v] = "failed" /\ readySent[v] = 0
        /\ wpc[w] = "idle" /\ readySent[w] = 1 /\ last[w].recv = "ok"

\* C11: for every DbClient method, also those without arguments, a call
\* whose request is accepted and whose store function succeeds ends with an
\* OK reply and returns: the store's result where the method returns the
\* result, and for get_statistics a record with the reported field values.
C11_CatalogSuccess ==
    (call.e2e /\ call.accepted /\ ~call.so.raises /\ Encodable(call.so.value)) =>
        /\ call.status = "OK"
        /\ call.kind = "return"
        /\ call.method \notin Discarding \cup {"log_build", "get_statistics"} =>
              call.value = call.so.value
        /\ call.method = "get_statistics" =>
              PairSet(call.record) = PairSet(Pairs(call.so.value))

\* C12: the statistics record type is the one made from the field names of
\* the first OK reply a get_statistics call of any client saw, and stays so
\* whatever replies come later; every record returned has its fields.
C12_ShapePinnedByFirstReply ==
    /\ stats_type = firstStats
    /\ (call.method = "get_statistics" /\ call.kind = "return") =>
          Keys(call.record) = firstStats.fields

C12_Witness ==
    /\ stats_type = namedtuple(<<"downloads_last_month", "packages_count">>)
    /\ call.method = "get_statistics" /\ call.status = "OK"
    /\ call.payload = "stats4"
    /\ build[call.client].logged

\* C13: whenever a handler calls its store function, the arguments it
\* passes are the arguments of the request, all of them and in order.
C13_ArgumentsPassedThrough ==
    call.store => call.storeArgs = call.args

\* C14: when a worker's receive has failed with an I/O error and the worker
\* is back in its loop, a request that waits at the router while no other
\* worker is in service is eventually dispatched to that worker.
C14_ServesAfterReceiveFailure ==
    \A w \in Workers :
        (/\ last[w].recv = "ioerror" /\ wpc[w] = "idle"
         /\ pending # <<>>
         /\ \A v \in Workers \ {w} : wpc[v] \in {"failed", "crashed"})
            ~> (winbox[w] # <<>>)

\* C15: a closed worker has released its store connection and then closed
\* its queue connection, and has sent the reply to every request it
\* received.
C15_ShutdownOrder ==
    \A w \in Workers :
        wpc[w] = "closed" =>
            /\ closed[w] = <<"db", "queue">>
            /\ ~dbOpen[w]
            /\ last[w].recv = "ok" => Len(last[w].sent) = 1

\* C16: two workers whose names have been formed have different instance
\* numbers, and the numbers increase in the order in which the
\* constructions began, whether or not a construction failed.
C16_DistinctIncreasingNames ==
    /\ \A v, w \in Workers :
          (v # w /\ wname[v] # 0 /\ wname[w] # 0) => wname[v] # wname[w]
    /\ \A i, j \in 1..Len(order) :
          (i < j /\ wname[order[i]] # 0 /\ wname[order[j]] # 0) =>
              wname[order[i]] < wname[order[j]]

\* C17: two workers never call the store on the same connection, a worker
\* calls it only with its own connection open, and a worker has at most one
\* request at a time: a request reaches it only when it has replied to the
\* one before, and a worker that left a request without a reply handles no
\* other.
C17_StoreConnectionExclusive ==
    /\ \A v, w \in Workers :
          (v # w /\ last[v].store /\ last[w].store) => last[v].conn # last[w].conn
    /\ \A w \in Workers :
          /\ last[w].store => (dbOpen[w] /\ last[w].conn # NoConn)
          /\ Len(winbox[w]) <= 1
          /\ winbox[w] # <<>> =>
                \/ last[w].recv = "none"
                \/ last[w].recv = "ok" /\ Len(last[w].sent) = 1
          /\ (last[w].recv = "ok" /\ last[w].sent = <<>>) => wpc[w] = "crashed"

C17_Witness ==
    \E v, w \in Workers :
        /\ v # w
        /\ last[v].store /\ last[v].conn = v /\ Len(last[v].sent) = 1
        /\ last[w].store /\ last[w].conn = w /\ Len(last[w].sent) = 1

\* C18 as claimed: a get_statistics call whose OK reply has a field set
\* other than that of the first reply returns a record.
C18_SilentlyApplied ==
    (/\ call.method = "get_statistics" /\ call.status = "OK"
     /\ KeySet(Pairs(call.payload)) # FieldSet(firstStats)) =>
        call.kind = "return"

\* C18: a get_statistics call with an OK reply returns a record exactly when
\* the field set of the reply is that of the pinned type, and the record
\* then has the reply's values in the order of the type; for any other field
\* set the call raises TypeError and returns nothing.
C18_MismatchRaises ==
    (call.method = "get_statistics" /\ call.status = "OK") =>
        IF KeySet(Pairs(call.payload)) = FieldSet(stats_type)
        THEN /\ call.kind = "return"
             /\ Keys(call.record) = stats_type.fields
             /\ PairSet(call.record) = PairSet(Pairs(call.payload))
        ELSE /\ call.kind = "raise"
             /\ call.type = "TypeError"
             /\ call.record = <<>>

C18_Witness ==
    /\ call.method = "get_statistics" /\ call.status = "OK"
    /\ call.payload = "stats1"
    /\ Len(stats_type.fields) = 3
    /\ call.kind = "raise" /\ call.type = "TypeError"

\* C19: log_build marks the build record, with the identifier of the reply,
\* when the reply is OK, and a build record changes in no other call; the
\* statistics type changes only in a get_statistics call with an OK reply.
C19_FrameEffect ==
    /\ [](call.method = "log_build" /\ call.status = "OK" =>
            build[call.client] = [logged |-> TRUE, build_id |-> call.payload])
    /\ [][/\ \A c \in Clients :
               build'[c] # build[c] =>
                   /\ call'.client = c
                   /\ call'.method = "log_build"
                   /\ call'.status = "OK"
          /\ stats_type' # stats_type =>
                   /\ call'.method = "get_statistics"
                   /\ call'.status = "OK"]_vars

C19_Witness ==
    /\ call.method = "log_build" /\ call.status = "ERROR" /\ call.kind = "raise"
    /\ build[call.client] = NoBuild
    /\ \E d \in Clients : build[d] = [logged |-> TRUE, build_id |-> "result"]
    /\ stats_type.set

====
